---- MODULE Spec2Model ----
(***************************************************************************)
(* Table detection of pdfile: src/src/composables/useTableDetection.ts,    *)
(* and the loader that feeds it: src/src/composables/usePdf.ts, App.vue.   *)
(*                                                                         *)
(* detectTables(elements) is modelled as a state machine that walks the    *)
(* function body: grouping by page, classification of one page, the        *)
(* union loop one pair of lines per step, the grouping into components,    *)
(* one component per step, return.                                         *)
(*                                                                         *)
(* Numbers.  The source computes on IEEE doubles.  The model keeps every   *)
(* length as an integer count of eighths of a unit (1 unit = 8), and the   *)
(* inputs it enumerates have sizes that are multiples of 1/4 unit (even    *)
(* counts), so x + w/2, v / 1.5 and Math.round are exact both in the       *)
(* source and here: 0.5 is 4, 1 is 8, 1.5 is 12, 3 is 24, 5 is 40.         *)
(* Array indices are 1-based here and 0-based in the source.               *)
(*                                                                         *)
(* Spec runs one call of detectTables, SpecPages a second call on the      *)
(* primitives of one page; SpecClassify, SpecUF and SpecDedup call         *)
(* classifyLines, the methods of UnionFind and dedup on their own.         *)
(* SpecBoth runs detectTables and then the same steps without the          *)
(* page-level check.  SpecLoad runs the calls of loadPdf that dropped and  *)
(* chosen files start, one await per step, and the watcher of App.vue      *)
(* that hands elements to detectTables.                                    *)
(***************************************************************************)
EXTENDS Integers, Sequences, FiniteSets, TLC

VARIABLES
    elements,    \* the argument of detectTables (never assigned by it)
    pc,          \* position in detectTables
    byPage,      \* Map<number, PdfElement[]> as a sequence in insertion order
    pageIdx,     \* the entry of byPage the outer loop is at
    hLines,      \* horizontal classified lines of the current page
    hi,          \* the horizontal line the union loop is at
    vi,          \* the vertical line the union loop is at
    vLines,      \* vertical classified lines of the current page
    uf,          \* UnionFind: [parent, rank]
    components,  \* Map<number, number[]> as a sequence in insertion order
    compIdx,     \* the entry of components the inner loop is at
    tableIdx,    \* per-page table counter
    tables,      \* the result list
    prior,       \* the call of detectTables before this one: <<>> if none
    arg,         \* the argument of the helper function a helper spec calls
    ret,         \* what that call returned: <<>> before it returns
    pdfDoc,      \* usePdf: the file whose document pdfDoc.value is, or "null"
    pages,       \* usePdf: pages.value
    loading,     \* usePdf: loading.value
    error,       \* usePdf: error.value, "null" or a message
    loads,       \* the calls of loadPdf so far, each with its position
    pending      \* the watcher of elements is queued

\* the state of one call of detectTables
call == <<elements, pc, byPage, pageIdx, hLines, hi, vi, vLines, uf, components,
          compIdx, tableIdx, tables>>

\* the refs of usePdf next to elements, and the calls in flight
load == <<pdfDoc, pages, loading, error, loads, pending>>

vars == <<call, prior, arg, ret, load>>

\* usePdf() before any call of loadPdf (lines 305-309)
NoLoad ==
    /\ pdfDoc = "null"
    /\ pages = 0
    /\ loading = FALSE
    /\ error = "null"
    /\ loads = <<>>
    /\ pending = FALSE

-----------------------------------------------------------------------------
(* Bounds of the model *)

\* the longest list dedup is called on on its own
MaxLen == 4
\* the size of the UnionFind whose methods are called on their own
UFSize == 4
\* the input is a sub-list of the first NumPrims entries of Catalogue
NumPrims == 12
\* the primitives of group "A" lie on a page of 1..MaxPage
MaxPage == 2

-----------------------------------------------------------------------------
(* Arithmetic of the source, in eighths of a unit *)

SNAP == 12
INTERSECT_TOL == 24

Abs(n) == IF n < 0 THEN -n ELSE n
Min(a, b) == IF a <= b THEN a ELSE b
Max(a, b) == IF a >= b THEN a ELSE b

\* Math.round(num / den) for den > 0: the nearest integer, halves go up
MathRound(num, den) == (2 * num + den) \div (2 * den)

\* variant: Math.floor in place of Math.round
snap_bug(v) == (v \div SNAP) * SNAP

snap(v) == MathRound(v, SNAP) * SNAP

\* a / b > k in IEEE arithmetic for a, b >= 0: a / 0 is +Infinity for a > 0
\* and NaN for a = 0, and NaN > k is false
RatioGreater(a, b, k) == IF b = 0 THEN a > 0 ELSE a > k * b

-----------------------------------------------------------------------------
(* classifyLines *)

\* variant: the dot test of line 54 left out
IsDot_bug(w, h) == FALSE
IsDot(w, h) == w < 4 /\ h < 4
\* variant: w / h >= 4 in place of w / h > 4 in line 56
IsHorizontal_bug(w, h) == h < 24 \/ (w > 40 /\ w >= 4 * h)
IsHorizontal(w, h) == h < 24 \/ (w > 40 /\ RatioGreater(w, h, 4))
IsVertical(w, h) == w < 24 \/ (h > 40 /\ RatioGreater(h, w, 4))

\* variant: lines 51-52 write the absolute sizes back into the primitive
classifyOne_bug(el) ==
    LET w == Abs(el.width)
        h == Abs(el.height)
        el1 == [el EXCEPT !.width = w, !.height = h]
    IN  IF el.type # "line" /\ el.type # "rect" THEN <<>>
        ELSE IF IsDot(w, h) THEN <<>>
        ELSE IF IsHorizontal(w, h)
             THEN <<[el |-> el1, dir |-> "h", pos |-> snap(el.y + h \div 2),
                     start |-> el.x, end |-> el.x + w]>>
        ELSE IF IsVertical(w, h)
             THEN <<[el |-> el1, dir |-> "v", pos |-> snap(el.x + w \div 2),
                     start |-> el.y, end |-> el.y + h]>>
        ELSE <<>>

\* variant: the near edge in place of the centre in lines 61 and 70
classifyOne_edge(el) ==
    LET w == Abs(el.width)
        h == Abs(el.height)
    IN  IF el.type # "line" /\ el.type # "rect" THEN <<>>
        ELSE IF IsDot(w, h) THEN <<>>
        ELSE IF IsHorizontal(w, h)
             THEN <<[el |-> el, dir |-> "h", pos |-> snap(el.y),
                     start |-> el.x, end |-> el.x + w]>>
        ELSE IF IsVertical(w, h)
             THEN <<[el |-> el, dir |-> "v", pos |-> snap(el.x),
                     start |-> el.y, end |-> el.y + h]>>
        ELSE <<>>

\* the ClassifiedLine of one element, as a sequence of zero or one lines
classifyOne(el) ==
    LET w == Abs(el.width)
        h == Abs(el.height)
    IN  IF el.type # "line" /\ el.type # "rect" THEN <<>>
        ELSE IF IsDot(w, h) THEN <<>>
        ELSE IF IsHorizontal(w, h)
             THEN <<[el |-> el, dir |-> "h", pos |-> snap(el.y + h \div 2),
                     start |-> el.x, end |-> el.x + w]>>
        ELSE IF IsVertical(w, h)
             THEN <<[el |-> el, dir |-> "v", pos |-> snap(el.x + w \div 2),
                     start |-> el.y, end |-> el.y + h]>>
        ELSE <<>>

RECURSIVE classifyLines(_)
classifyLines(els) ==
    IF els = <<>> THEN <<>>
    ELSE classifyOne(Head(els)) \o classifyLines(Tail(els))

IsH(l) == l.dir = "h"
IsV(l) == l.dir = "v"

-----------------------------------------------------------------------------
(* intersects *)

\* variant: < and > in place of <= and >= in lines 85-86
intersects_open(h, v) ==
    LET t == INTERSECT_TOL
        xOk == v.pos > h.start - t /\ v.pos < h.end + t
        yOk == h.pos > Min(v.start, v.end) - t /\ h.pos < Max(v.start, v.end) + t
    IN  xOk /\ yOk

\* variant: || in place of && in line 87
intersects_bug(h, v) ==
    LET t == INTERSECT_TOL
        xOk == v.pos >= h.start - t /\ v.pos <= h.end + t
        yOk == h.pos >= Min(v.start, v.end) - t /\ h.pos <= Max(v.start, v.end) + t
    IN  xOk \/ yOk

intersects(h, v) ==
    LET t == INTERSECT_TOL
        xOk == v.pos >= h.start - t /\ v.pos <= h.end + t
        yOk == h.pos >= Min(v.start, v.end) - t /\ h.pos <= Max(v.start, v.end) + t
    IN  xOk /\ yOk

-----------------------------------------------------------------------------
(* UnionFind *)

NewUnionFind(n) == [parent |-> [i \in 1..n |-> i], rank |-> [i \in 1..n |-> 0]]

\* the value find(x) returns
RECURSIVE FindRoot(_, _)
FindRoot(par, x) == IF par[x] = x THEN x ELSE FindRoot(par, par[x])

\* the nodes find(x) visits
RECURSIVE FindPath(_, _)
FindPath(par, x) == IF par[x] = x THEN {x} ELSE {x} \cup FindPath(par, par[x])

\* the parent array after find(x): every visited node points at the root
Compress(par, x) ==
    LET r == FindRoot(par, x)
        p == FindPath(par, x)
    IN  [i \in DOMAIN par |-> IF i \in p THEN r ELSE par[i]]

find(u, x) == [u EXCEPT !.parent = Compress(u.parent, x)]

\* variant: equal ranks only raise the rank, the link is forgotten
LinkRoots_bug(u, ra, rb) ==
    IF ra = rb THEN u
    ELSE IF u.rank[ra] < u.rank[rb] THEN [u EXCEPT !.parent[ra] = rb]
    ELSE IF u.rank[ra] > u.rank[rb] THEN [u EXCEPT !.parent[rb] = ra]
    ELSE [u EXCEPT !.rank[ra] = @ + 1]

\* variant: equal ranks link without raising the rank
LinkRoots_flat(u, ra, rb) ==
    IF ra = rb THEN u
    ELSE IF u.rank[ra] < u.rank[rb] THEN [u EXCEPT !.parent[ra] = rb]
    ELSE [u EXCEPT !.parent[rb] = ra]

LinkRoots(u, ra, rb) ==
    IF ra = rb THEN u
    ELSE IF u.rank[ra] < u.rank[rb] THEN [u EXCEPT !.parent[ra] = rb]
    ELSE IF u.rank[ra] > u.rank[rb] THEN [u EXCEPT !.parent[rb] = ra]
    ELSE [u EXCEPT !.parent[rb] = ra, !.rank[ra] = @ + 1]

\* variant: the nodes are linked in place of their roots
union_bug(u, a, b) == [u EXCEPT !.parent[b] = a]

union(u, a, b) ==
    LET u1 == find(u, a)
        ra == FindRoot(u.parent, a)
        u2 == find(u1, b)
        rb == FindRoot(u1.parent, b)
    IN  LinkRoots(u2, ra, rb)

-----------------------------------------------------------------------------
(* dedup and the numeric sort *)

\* variant: line 119 compares with the previous input value arr[i - 1]
RECURSIVE dedupFrom_prev(_, _, _)
dedupFrom_prev(arr, i, out) ==
    IF i > Len(arr) THEN out
    ELSE IF arr[i] - arr[i - 1] > SNAP
         THEN dedupFrom_prev(arr, i + 1, Append(out, arr[i]))
         ELSE dedupFrom_prev(arr, i + 1, out)

\* variant: >= in place of > in line 119
RECURSIVE dedupFrom_ge(_, _, _)
dedupFrom_ge(arr, i, out) ==
    IF i > Len(arr) THEN out
    ELSE IF arr[i] - out[Len(out)] >= SNAP
         THEN dedupFrom_ge(arr, i + 1, Append(out, arr[i]))
         ELSE dedupFrom_ge(arr, i + 1, out)

RECURSIVE dedupFrom(_, _, _)
dedupFrom(arr, i, out) ==
    IF i > Len(arr) THEN out
    ELSE IF arr[i] - out[Len(out)] > SNAP
         THEN dedupFrom(arr, i + 1, Append(out, arr[i]))
         ELSE dedupFrom(arr, i + 1, out)

dedup(arr) == IF Len(arr) = 0 THEN <<>> ELSE dedupFrom(arr, 2, <<arr[1]>>)

RECURSIVE InsertSorted(_, _)
InsertSorted(s, v) ==
    IF s = <<>> THEN <<v>>
    ELSE IF v < Head(s) THEN <<v>> \o s
    ELSE <<Head(s)>> \o InsertSorted(Tail(s), v)

\* arr.sort((a, b) => a - b)
RECURSIVE SortAsc(_)
SortAsc(arr) ==
    IF arr = <<>> THEN <<>>
    ELSE InsertSorted(SortAsc(SubSeq(arr, 1, Len(arr) - 1)), arr[Len(arr)])

-----------------------------------------------------------------------------
(* detectTables: grouping by page *)

HasPage(bp, p) == \E i \in 1..Len(bp) : bp[i].page = p
PageSlot(bp, p) == CHOOSE i \in 1..Len(bp) : bp[i].page = p

\* the Map byPage after the grouping loop has run over els
RECURSIVE groupByPage(_, _)
groupByPage(els, bp) ==
    IF els = <<>> THEN bp
    ELSE LET el == Head(els)
         IN  IF HasPage(bp, el.page)
             THEN groupByPage(Tail(els),
                      [bp EXCEPT ![PageSlot(bp, el.page)].els = Append(@, el)])
             ELSE groupByPage(Tail(els),
                      Append(bp, [page |-> el.page, els |-> <<el>>]))

\* variant: the check of line 137 asks for three lines per axis
SkipsPage_three(hs, vs) == Len(hs) < 3 \/ Len(vs) < 3
\* lines.length < 2 on either axis: the page is skipped
SkipsPage(hs, vs) == Len(hs) < 2 \/ Len(vs) < 2

-----------------------------------------------------------------------------
(* detectTables: intersection graph and components *)

\* the two nested loops over hLines and vLines, from (hi, vi) on
\* the body of the two nested loops for the pair (h, v) of line indices
unionPair(u, hs, vs, h, v) ==
    IF intersects(hs[h], vs[v]) THEN union(u, h, Len(hs) + v) ELSE u

HasRoot(comps, r) == \E k \in 1..Len(comps) : comps[k].root = r
RootSlot(comps, r) == CHOOSE k \in 1..Len(comps) : comps[k].root = r

\* variant: the Map is kept in ascending order of its keys
NewComponent_sorted(comps, root, i) ==
    LET before == SelectSeq(comps, LAMBDA c : c.root < root)
        after == SelectSeq(comps, LAMBDA c : c.root > root)
    IN  before \o <<[root |-> root, members |-> <<i>>]>> \o after
\* variant: a new key goes to the front of the Map
NewComponent_front(comps, root, i) ==
    <<[root |-> root, members |-> <<i>>]>> \o comps
\* components.set(root, []) followed by the push of line 161: a new key is
\* the last one of the Map
NewComponent(comps, root, i) == Append(comps, [root |-> root, members |-> <<i>>])

\* the loop that fills the Map components, from index i on; find compresses
RECURSIVE groupComponents(_, _, _, _)
groupComponents(u, n, i, comps) ==
    IF i > n THEN [uf |-> u, components |-> comps]
    ELSE LET root == FindRoot(u.parent, i)
         IN  IF HasRoot(comps, root)
             THEN groupComponents(find(u, i), n, i + 1,
                      [comps EXCEPT ![RootSlot(comps, root)].members = Append(@, i)])
             ELSE groupComponents(find(u, i), n, i + 1,
                      NewComponent(comps, root, i))

-----------------------------------------------------------------------------
(* detectTables: one component *)

MapLines(idx, all) == [j \in 1..Len(idx) |-> all[idx[j]]]
Positions(ls) == [j \in 1..Len(ls) |-> ls[j].pos]
\* variant: a line within SNAP of the coordinate of an earlier line of its
\* direction is left out
LineIdsOf_grid(ls) ==
    LET idx == SelectSeq([j \in 1..Len(ls) |-> j],
                         LAMBDA j : \A k \in 1..(j - 1) :
                             ls[k].dir # ls[j].dir
                                 \/ Abs(ls[k].pos - ls[j].pos) > SNAP)
    IN  [j \in 1..Len(idx) |-> ls[idx[j]].el.id]
LineIdsOf(ls) == [j \in 1..Len(ls) |-> ls[j].el.id]

\* members.filter(i => i < vOffset).map(i => allLines[i])
compHOf(members, hs, vs) ==
    MapLines(SelectSeq(members, LAMBDA i : i <= Len(hs)), hs \o vs)
\* variant: every vertical line of the page
compVOf_page(members, hs, vs) == vs
\* members.filter(i => i >= vOffset).map(i => allLines[i])
compVOf(members, hs, vs) ==
    MapLines(SelectSeq(members, LAMBDA i : i > Len(hs)), hs \o vs)

\* variant: line 172 asks for three lines per direction
TooFewLines_three(compH, compV) == Len(compH) < 3 \/ Len(compV) < 3
\* line 172
TooFewLines(compH, compV) == Len(compH) < 2 \/ Len(compV) < 2
\* variant: the thresholds of line 178 off by one
TooFewCoords_bug(ys, xs) == Len(ys) < 1 \/ Len(xs) < 1
TooFewCoords(ys, xs) == Len(ys) < 2 \/ Len(xs) < 2

gridYs(compH) == dedup(SortAsc(Positions(compH)))
gridXs(compV) == dedup(SortAsc(Positions(compV)))

\* variant: the cell width measured from the first grid line
NewCell_bug(r, c, xs, ys) ==
    [row |-> r - 1, col |-> c - 1, x |-> xs[c], y |-> ys[r],
     width |-> xs[c + 1] - xs[1], height |-> ys[r + 1] - ys[r],
     text |-> "", textElementIds |-> <<>>]
NewCell(r, c, xs, ys) ==
    [row |-> r - 1, col |-> c - 1, x |-> xs[c], y |-> ys[r],
     width |-> xs[c + 1] - xs[c], height |-> ys[r + 1] - ys[r],
     text |-> "", textElementIds |-> <<>>]

buildCells(xs, ys) ==
    [r \in 1..(Len(ys) - 1) |-> [c \in 1..(Len(xs) - 1) |-> NewCell(r, c, xs, ys)]]

IsTextEl(e) == e.type = "text" /\ e.str # ""
\* variant: the text runs of every page in place of pageEls in line 203
textElsOf_bug(pageEls) == SelectSeq(elements, IsTextEl)
textElsOf(pageEls) == SelectSeq(pageEls, IsTextEl)

\* variant: || in place of && in line 218
cellContains_bug(cell, te) ==
    LET tx == te.x + te.width \div 2
        ty == te.y + te.height \div 2
        inX == tx >= cell.x - 8 /\ tx <= cell.x + cell.width + 8
        cellYMin == Min(cell.y, cell.y + cell.height)
        cellYMax == Max(cell.y, cell.y + cell.height)
        inY == ty >= cellYMin - 8 /\ ty <= cellYMax + 8
    IN  inX \/ inY

\* variant: a tolerance of 2 in lines 214 and 217
cellContains_wide(cell, te) ==
    LET tx == te.x + te.width \div 2
        ty == te.y + te.height \div 2
        inX == tx >= cell.x - 16 /\ tx <= cell.x + cell.width + 16
        cellYMin == Min(cell.y, cell.y + cell.height)
        cellYMax == Max(cell.y, cell.y + cell.height)
        inY == ty >= cellYMin - 16 /\ ty <= cellYMax + 16
    IN  inX /\ inY

\* variant: no tolerance in lines 214 and 217
cellContains_tight(cell, te) ==
    LET tx == te.x + te.width \div 2
        ty == te.y + te.height \div 2
        inX == tx >= cell.x /\ tx <= cell.x + cell.width
        cellYMin == Min(cell.y, cell.y + cell.height)
        cellYMax == Max(cell.y, cell.y + cell.height)
        inY == ty >= cellYMin /\ ty <= cellYMax
    IN  inX /\ inY

cellContains(cell, te) ==
    LET tx == te.x + te.width \div 2
        ty == te.y + te.height \div 2
        inX == tx >= cell.x - 8 /\ tx <= cell.x + cell.width + 8
        cellYMin == Min(cell.y, cell.y + cell.height)
        cellYMax == Max(cell.y, cell.y + cell.height)
        inY == ty >= cellYMin - 8 /\ ty <= cellYMax + 8
    IN  inX /\ inY

\* variant: the new content is put in front in line 220
JoinText_front(text, str) == IF text # "" THEN str \o " " \o text ELSE str
JoinText(text, str) == IF text # "" THEN text \o " " \o str ELSE str

addText(cell, te) ==
    IF cellContains(cell, te)
    THEN [cell EXCEPT !.textElementIds = Append(@, te.id),
                      !.text = JoinText(@, te.str)]
    ELSE cell

\* the loop over textEls; the inner loops visit every cell once per text
RECURSIVE assignTexts(_, _)
assignTexts(cells, textEls) ==
    IF textEls = <<>> THEN cells
    ELSE assignTexts([r \in DOMAIN cells |->
                         [c \in DOMAIN cells[r] |-> addText(cells[r][c], Head(textEls))]],
                     Tail(textEls))

\* variant: the index counted from 1
TableId_bug(page, idx) == "table-p" \o ToString(page) \o "-" \o ToString(idx + 1)
TableId(page, idx) == "table-p" \o ToString(page) \o "-" \o ToString(idx)

\* variant: the far corner in place of the extent in lines 234-235
NewTable_corner(page, idx, compH, compV, xs, ys, pageEls) ==
    [id |-> TableId(page, idx), page |-> page,
     x |-> xs[1], y |-> ys[1],
     width |-> xs[Len(xs)], height |-> ys[Len(ys)],
     rows |-> Len(ys) - 1, cols |-> Len(xs) - 1,
     cells |-> assignTexts(buildCells(xs, ys), textElsOf(pageEls)),
     lineIds |-> LineIdsOf(compH \o compV)]

NewTable(page, idx, compH, compV, xs, ys, pageEls) ==
    [id |-> TableId(page, idx), page |-> page,
     x |-> xs[1], y |-> ys[1],
     width |-> xs[Len(xs)] - xs[1], height |-> ys[Len(ys)] - ys[1],
     rows |-> Len(ys) - 1, cols |-> Len(xs) - 1,
     cells |-> assignTexts(buildCells(xs, ys), textElsOf(pageEls)),
     lineIds |-> LineIdsOf(compH \o compV)]

-----------------------------------------------------------------------------
(* The inputs the model runs detectTables on *)

\* [id, type, grp, x, y, width, height, str] with the geometry in quarter units
Prim(id, type, grp, x, y, w, h, str) ==
    [id |-> id, type |-> type, grp |-> grp, x |-> 2 * x, y |-> 2 * y,
     width |-> 2 * w, height |-> 2 * h, str |-> str]

\* Group A is a box 0..60 x 0..60 whose top line a1 is short, with a second
\* line a5 1 unit below a1 and a short ruling v6 at x = 10.5; group B is a box
\* 20..40 x 20..30 inside it that touches none of A's lines.
Catalogue ==
    << Prim("a1", "line", "A",   0,   0,  48,   0, ""),
       Prim("b1", "line", "B",  80,  80,  80,   0, ""),
       Prim("a2", "rect", "A",   0, 236, 240,   4, ""),
       Prim("b2", "rect", "B",  80, 120,  80,   8, ""),
       Prim("va", "line", "A", 240,   0,   0, 240, ""),
       Prim("vb", "rect", "A",   0,   0,   4, 240, ""),
       Prim("vc", "line", "B",  80,  80,   0,  40, ""),
       Prim("vd", "line", "B", 160, 120,   0, -40, ""),
       Prim("t1", "text", "B", 112,  96,  16,   8, "a"),
       Prim("a5", "line", "A",   0,   4,  48,   0, ""),
       Prim("v6", "rect", "A",  40,   0,   8,  60, ""),
       Prim("t3", "text", "A",  34, 116,  16,   8, "b"),
       Prim("t2", "text", "B", 112,  96,  16,   8, ""),
       Prim("d0", "line", "B",  80,  80,   0,   0, ""),
       Prim("sq", "rect", "A",   0,   0, 240, 240, ""),
       Prim("d1", "rect", "A",  20,  20,   1,   1, "") >>

PageOfGroup(grp, pageA) == IF grp = "A" THEN pageA ELSE 1

Element(p, pageA) ==
    [id |-> p.id, page |-> PageOfGroup(p.grp, pageA), type |-> p.type,
     str |-> p.str, x |-> p.x, y |-> p.y, width |-> p.width, height |-> p.height]

\* the entries of Catalogue[i..NumPrims] with an index in S, in catalogue order
RECURSIVE SubList(_, _, _)
SubList(S, pageA, i) ==
    IF i > NumPrims \/ i > Len(Catalogue) THEN <<>>
    ELSE (IF i \in S THEN <<Element(Catalogue[i], pageA)>> ELSE <<>>)
         \o SubList(S, pageA, i + 1)

FamilyInputs ==
    { SubList(S, pageA, 1) : S \in SUBSET (1..NumPrims), pageA \in 1..MaxPage }

\* a ruling of zero thickness: Line{x, y, width, height} with one size 0
HRule(id, page, x, y, len) ==
    [id |-> id, page |-> page, type |-> "line", str |-> "",
     x |-> 8 * x, y |-> 8 * y, width |-> 8 * len, height |-> 0]
VRule(id, page, x, y, len) ==
    [id |-> id, page |-> page, type |-> "line", str |-> "",
     x |-> 8 * x, y |-> 8 * y, width |-> 0, height |-> 8 * len]
TextRun(id, page, x, y, w, h, str) ==
    [id |-> id, page |-> page, type |-> "text", str |-> str,
     x |-> 8 * x, y |-> 8 * y, width |-> 8 * w, height |-> 8 * h]

\* the rulings of a full grid, in units: one horizontal rule per entry of ys
\* spanning xs[1]..xs[last], then one vertical rule per entry of xs
GridRules(pfx, page, xs, ys) ==
    [i \in 1..Len(ys) |->
        HRule(pfx \o "h" \o ToString(i), page, xs[1], ys[i], xs[Len(xs)] - xs[1])]
    \o
    [j \in 1..Len(xs) |->
        VRule(pfx \o "v" \o ToString(j), page, xs[j], ys[1], ys[Len(ys)] - ys[1])]

\* spec.md section 8, scenarios A, B and D, and a grid inside a cell of another
ScenarioA == GridRules("g", 1, <<0, 200>>, <<0, 100>>)
ScenarioB ==
    GridRules("g", 1, <<0, 50, 100, 150>>, <<0, 50, 100, 150>>)
    \o <<TextRun("t", 1, 70, 72, 10, 6, "x")>>
ScenarioD ==
    GridRules("g", 1, <<0, 50, 100>>, <<0, 50, 100>>)
    \o GridRules("k", 1, <<300, 350, 400>>, <<0, 50, 100>>)
ScenarioNested ==
    GridRules("g", 1, <<0, 200>>, <<0, 200>>)
    \o GridRules("k", 1, <<50, 100>>, <<50, 100>>)

\* the box of group B with its text and every degenerate primitive of the
\* catalogue: empty text, zero-area line, square, dot
ScenarioDegenerate ==
    LET idx == <<13, 2, 14, 4, 15, 7, 16, 8, 9>>
    IN  [k \in 1..Len(idx) |-> Element(Catalogue[idx[k]], 1)]

\* a line primitive on page 1 with its geometry in eighths
Stroke(id, x, y, w, h) ==
    [id |-> id, page |-> 1, type |-> "line", str |-> "",
     x |-> x, y |-> y, width |-> w, height |-> h]

\* a text run on page 1 with its geometry in eighths
Glyphs(id, x, y, w, h, str) ==
    [id |-> id, page |-> 1, type |-> "text", str |-> str,
     x |-> x, y |-> y, width |-> w, height |-> h]

\* lines that meet exactly at the tolerance of 3 and just beyond it:
\* h1 spans x 0..49.5 at y 0, h2 spans x 0..49.25 at y 30; v1 at x 52.5 and
\* v2 at x -3 are 3 away from the ends of h1, v2 spans y 3..27, v3 lies at
\* x -4.5, v4 at x 52.5 starts 3.25 below h1.  The one cell is x -3..52.5,
\* y 0..30: the centroid of e1 is 1 right of it, of e2 1.25 right of it, of
\* e3 1 above it.
ScenarioTolerance ==
    << Stroke("h1",   0,   0, 396,   0),
       Stroke("h2",   0, 240, 394,   0),
       Stroke("v1", 420,   0,   0, 240),
       Stroke("v2", -24,  24,   0, 192),
       Stroke("v3", -36,   0,   0, 240),
       Stroke("v4", 420,  26,   0, 100),
       Glyphs("e1", 420, 112,  16,  16, "r"),
       Glyphs("e2", 422, 112,  16,  16, "s"),
       Glyphs("e3",  92, -16,  16,  16, "u") >>

\* a grid of 2 rows and 3 columns whose upper left cell holds three text
\* runs that the input lists neither in the order of their ids nor of their
\* positions, the first of them ahead of the rulings; the centroid of w4 is
\* the grid crossing (60, 60), that of w5 lies right of the grid
ScenarioText ==
    <<TextRun("w3", 1, 30, 20, 10, 6, "c")>>
    \o GridRules("g", 1, <<0, 60, 120, 180>>, <<0, 60, 120>>)
    \o <<TextRun("w1", 1, 10, 40, 10, 6, "a"),
         TextRun("w2", 1, 20, 10, 10, 6, "b"),
         TextRun("w4", 1, 55, 58, 10, 4, "d"),
         TextRun("w5", 1, 200, 50, 10, 6, "e")>>

\* rulings at 0, 1 and 3 on both axes: they snap to 0, 1.5 and 3
ScenarioNarrow == GridRules("g", 1, <<0, 1, 3>>, <<0, 1, 3>>)

Scenarios ==
    {ScenarioA, ScenarioB, ScenarioD, ScenarioNested, ScenarioDegenerate,
     ScenarioTolerance, ScenarioText, ScenarioNarrow}

Inputs == FamilyInputs \cup Scenarios

-----------------------------------------------------------------------------
(* detectTables as a state machine *)

Init ==
    /\ elements \in Inputs
    /\ pc = "start"
    /\ byPage = <<>>
    /\ pageIdx = 1
    /\ hLines = <<>>
    /\ hi = 1
    /\ vi = 1
    /\ vLines = <<>>
    /\ uf = NewUnionFind(0)
    /\ components = <<>>
    /\ compIdx = 1
    /\ tableIdx = 0
    /\ tables = <<>>
    /\ prior = <<>>
    /\ arg = <<>>
    /\ ret = <<>>
    /\ NoLoad

\* lines 127-134
GroupByPage ==
    /\ pc = "start"
    /\ byPage' = groupByPage(elements, <<>>)
    /\ pageIdx' = 1
    /\ pc' = "page"
    /\ UNCHANGED <<prior, arg, ret, load>>
    /\ UNCHANGED <<elements, hLines, hi, vi, vLines, uf, components, compIdx,
                   tableIdx, tables>>

\* lines 136-141, a page that is skipped
SkipPage ==
    /\ pc = "page"
    /\ pageIdx <= Len(byPage)
    /\ LET lines == classifyLines(byPage[pageIdx].els)
           hs == SelectSeq(lines, IsH)
           vs == SelectSeq(lines, IsV)
       IN  /\ SkipsPage(hs, vs)
           /\ hLines' = hs
           /\ vLines' = vs
    /\ pageIdx' = pageIdx + 1
    /\ UNCHANGED <<prior, arg, ret, load>>
    /\ UNCHANGED <<elements, pc, byPage, hi, vi, uf, components, compIdx, tableIdx,
                   tables>>

\* lines 136-147, a page that goes on to the graph
ClassifyPage ==
    /\ pc = "page"
    /\ pageIdx <= Len(byPage)
    /\ LET lines == classifyLines(byPage[pageIdx].els)
           hs == SelectSeq(lines, IsH)
           vs == SelectSeq(lines, IsV)
       IN  /\ ~SkipsPage(hs, vs)
           /\ hLines' = hs
           /\ vLines' = vs
           /\ uf' = NewUnionFind(Len(hs) + Len(vs))
    /\ hi' = 1
    /\ vi' = 1
    /\ pc' = "union"
    /\ UNCHANGED <<prior, arg, ret, load>>
    /\ UNCHANGED <<elements, byPage, pageIdx, components, compIdx, tableIdx,
                   tables>>

\* lines 149-155, one iteration of the inner loop; the page has at least
\* two vertical lines, so vi <= Len(vLines) at every entry
UnionStep ==
    /\ pc = "union"
    /\ hi <= Len(hLines)
    /\ uf' = unionPair(uf, hLines, vLines, hi, vi)
    /\ IF vi < Len(vLines)
       THEN hi' = hi /\ vi' = vi + 1
       ELSE hi' = hi + 1 /\ vi' = 1
    /\ UNCHANGED <<prior, arg, ret, load>>
    /\ UNCHANGED <<elements, pc, byPage, pageIdx, hLines, vLines, components,
                   compIdx, tableIdx, tables>>

\* lines 157-166, the outer loop is exhausted
GroupComponents ==
    /\ pc = "union"
    /\ hi > Len(hLines)
    /\ LET g == groupComponents(uf, Len(hLines) + Len(vLines), 1, <<>>)
       IN  /\ uf' = g.uf
           /\ components' = g.components
    /\ compIdx' = 1
    /\ tableIdx' = 0
    /\ pc' = "comp"
    /\ UNCHANGED <<prior, arg, ret, load>>
    /\ UNCHANGED <<elements, byPage, pageIdx, hLines, hi, vi, vLines, tables>>

\* lines 167-178, a component that is dropped
DropComponent ==
    /\ pc = "comp"
    /\ compIdx <= Len(components)
    /\ LET compH == compHOf(components[compIdx].members, hLines, vLines)
           compV == compVOf(components[compIdx].members, hLines, vLines)
       IN  \/ TooFewLines(compH, compV)
           \/ TooFewCoords(gridYs(compH), gridXs(compV))
    /\ compIdx' = compIdx + 1
    /\ UNCHANGED <<prior, arg, ret, load>>
    /\ UNCHANGED <<elements, pc, byPage, pageIdx, hLines, hi, vi, vLines, uf,
                   components, tableIdx, tables>>

\* lines 167-241, a component that becomes a table
EmitTable ==
    /\ pc = "comp"
    /\ compIdx <= Len(components)
    /\ LET compH == compHOf(components[compIdx].members, hLines, vLines)
           compV == compVOf(components[compIdx].members, hLines, vLines)
           ys == gridYs(compH)
           xs == gridXs(compV)
       IN  /\ ~TooFewLines(compH, compV)
           /\ ~TooFewCoords(ys, xs)
           /\ tables' = Append(tables, NewTable(byPage[pageIdx].page, tableIdx,
                                                compH, compV, xs, ys,
                                                byPage[pageIdx].els))
    /\ tableIdx' = tableIdx + 1
    /\ compIdx' = compIdx + 1
    /\ UNCHANGED <<prior, arg, ret, load>>
    /\ UNCHANGED <<elements, pc, byPage, pageIdx, hLines, hi, vi, vLines, uf,
                   components>>

\* the loop over components is exhausted: next entry of byPage
NextPage ==
    /\ pc = "comp"
    /\ compIdx > Len(components)
    /\ pageIdx' = pageIdx + 1
    /\ pc' = "page"
    /\ UNCHANGED <<prior, arg, ret, load>>
    /\ UNCHANGED <<elements, byPage, hLines, hi, vi, vLines, uf, components, compIdx,
                   tableIdx, tables>>

\* line 244
Return ==
    /\ pc = "page"
    /\ pageIdx > Len(byPage)
    /\ pc' = "done"
    /\ UNCHANGED <<prior, arg, ret, load>>
    /\ UNCHANGED <<elements, byPage, pageIdx, hLines, hi, vi, vLines, uf, components,
                   compIdx, tableIdx, tables>>

Next ==
    \/ GroupByPage
    \/ SkipPage
    \/ ClassifyPage
    \/ UnionStep
    \/ GroupComponents
    \/ DropComponent
    \/ EmitTable
    \/ NextPage
    \/ Return

Spec == Init /\ [][Next]_vars

-----------------------------------------------------------------------------
(* Two calls in a row: the whole list, then the primitives of one page *)

\* the pages that occur in a list of primitives
PagesOf(els) == {els[i].page : i \in 1..Len(els)}
\* the primitives of page p, in their relative order
OnPage(els, p) == SelectSeq(els, LAMBDA e : e.page = p)

\* line 126 entered again once the first call has returned, with the
\* primitives of one page of the first call's argument
CallOnPage ==
    /\ pc = "done"
    /\ prior = <<>>
    /\ \E p \in PagesOf(elements) : elements' = OnPage(elements, p)
    /\ prior' = <<[elements |-> elements, tables |-> tables]>>
    /\ pc' = "start"
    /\ byPage' = <<>>
    /\ pageIdx' = 1
    /\ hLines' = <<>>
    /\ hi' = 1
    /\ vi' = 1
    /\ vLines' = <<>>
    /\ uf' = NewUnionFind(0)
    /\ components' = <<>>
    /\ compIdx' = 1
    /\ tableIdx' = 0
    /\ tables' = <<>>
    /\ UNCHANGED <<arg, ret, load>>

NextPages ==
    \/ Next
    \/ CallOnPage

SpecPages == Init /\ [][NextPages]_vars

-----------------------------------------------------------------------------
(* Properties of detectTables *)

Range(seq) == {seq[i] : i \in 1..Len(seq)}

RECURSIVE SumSeq(_)
SumSeq(seq) == IF seq = <<>> THEN 0 ELSE Head(seq) + SumSeq(Tail(seq))

\* the classified lines of page p, recomputed from the input
LinesOfPage(p) == classifyLines(SelectSeq(elements, LAMBDA e : e.page = p))

\* the classified lines a table names in lineIds
SourceLines(t) ==
    SelectSeq(LinesOfPage(t.page), LAMBDA l : l.el.id \in Range(t.lineIds))

\* C1: every table comes from a component with at least 2 horizontal and 2
\* vertical classified lines whose deduplicated coordinates number at least 2
\* on each axis, so that rows >= 1 and cols >= 1.
C1_MinimumGrid ==
    \A i \in 1..Len(tables) :
        LET t == tables[i]
            hs == SelectSeq(SourceLines(t), IsH)
            vs == SelectSeq(SourceLines(t), IsV)
        IN  /\ Len(hs) >= 2
            /\ Len(vs) >= 2
            /\ Len(dedup(SortAsc(Positions(hs)))) >= 2
            /\ Len(dedup(SortAsc(Positions(vs)))) >= 2
            /\ t.rows >= 1
            /\ t.cols >= 1

\* a finished run with a table whose component had coordinates merged by dedup
C1_Witness ==
    /\ pc = "done"
    /\ \E i \in 1..Len(tables) :
          Len(tables[i].lineIds) > tables[i].rows + tables[i].cols + 2

\* C2: cells has rows rows of cols cells each; the widths along every row sum
\* to the table's width and the heights along every column to its height.
C2_CellCoverage ==
    \A i \in 1..Len(tables) :
        LET t == tables[i]
        IN  /\ Len(t.cells) = t.rows
            /\ \A r \in 1..Len(t.cells) :
                  /\ Len(t.cells[r]) = t.cols
                  /\ SumSeq([c \in 1..Len(t.cells[r]) |-> t.cells[r][c].width]) = t.width
            /\ \A c \in 1..t.cols :
                  SumSeq([r \in 1..Len(t.cells) |-> t.cells[r][c].height]) = t.height

\* a finished run with a table of at least 2 rows and 2 columns
C2_Witness ==
    /\ pc = "done"
    /\ \E i \in 1..Len(tables) : tables[i].rows >= 2 /\ tables[i].cols >= 2

\* C3: the returned list is ordered by ascending page number, whatever the
\* order of the primitives in the input.
C3_PageAscending ==
    \A i, j \in 1..Len(tables) : i < j => tables[i].page <= tables[j].page

\* the number of tables of the same page emitted before the i-th table
PriorOnPage(i) == Cardinality({j \in 1..(i - 1) : tables[j].page = tables[i].page})

\* C4: the k tables of page p have the ids "table-p{p}-0" .. "table-p{p}-(k-1)"
\* in emission order, dropped components consume no index, and all ids of one
\* output are pairwise distinct.
C4_TableIds ==
    /\ \A i \in 1..Len(tables) :
          tables[i].id = "table-p" \o ToString(tables[i].page) \o "-"
                           \o ToString(PriorOnPage(i))
    /\ \A i, j \in 1..Len(tables) : i # j => tables[i].id # tables[j].id

\* the loop over two components has ended: the first was dropped and the
\* second became the table with index 0
C4_Witness ==
    /\ pc = "comp"
    /\ compIdx > Len(components)
    /\ Len(components) = 2
    /\ tableIdx = 1
    /\ tables[Len(tables)].id = "table-p1-0"
    /\ tables[Len(tables)].lineIds =
          LineIdsOf(compHOf(components[2].members, hLines, vLines)
                    \o compVOf(components[2].members, hLines, vLines))

\* the tables of page p in the result, in order
TablesOfPage(p) == SelectSeq(tables, LAMBDA t : t.page = p)

\* C5 as stated: scenario A of spec.md gives one 1 x 1 table with the bounding
\* box x = 0, y = 0, width = 200, height = 100.
C5_ScenarioA_AsStated ==
    (pc = "done" /\ elements = ScenarioA) =>
        /\ Len(tables) = 1
        /\ tables[1].rows = 1 /\ tables[1].cols = 1
        /\ tables[1].x = 0 /\ tables[1].y = 0
        /\ tables[1].width = 8 * 200 /\ tables[1].height = 8 * 100

\* C5 amended: scenario A gives one 1 x 1 table whose bounding box is made of
\* the snapped coordinates: x = 0, y = 0, width = 199.5, height = 100.5.
C5_ScenarioA_Snapped ==
    (pc = "done" /\ elements = ScenarioA) =>
        /\ Len(tables) = 1
        /\ tables[1].rows = 1 /\ tables[1].cols = 1
        /\ tables[1].x = 0 /\ tables[1].y = 0
        /\ tables[1].width = 8 * 200 - 4 /\ tables[1].height = 8 * 100 + 4

\* the run on scenario A has returned a table
C5_Witness == pc = "done" /\ elements = ScenarioA /\ Len(tables) = 1

\* C6: scenario B, the 3 x 3 grid at 0/50/100/150 with one text run centred in
\* cell (1,1), gives one table with rows = 3 and cols = 3 in which cells[1][1]
\* holds the run and every other cell has empty text and no textElementIds.
C6_ScenarioB ==
    (pc = "done" /\ elements = ScenarioB) =>
        /\ Len(tables) = 1
        /\ tables[1].rows = 3 /\ tables[1].cols = 3
        /\ \A r \in 1..3, c \in 1..3 :
              LET cell == tables[1].cells[r][c]
              IN  IF r = 2 /\ c = 2
                  THEN cell.text = "x" /\ cell.textElementIds = <<"t">>
                  ELSE cell.text = "" /\ cell.textElementIds = <<>>

\* the run on scenario B has returned a table with the text attached
C6_Witness ==
    /\ pc = "done" /\ elements = ScenarioB /\ Len(tables) = 1
    /\ \E r \in 1..Len(tables[1].cells) : \E c \in 1..Len(tables[1].cells[r]) :
          tables[1].cells[r][c].textElementIds # <<>>

\* a horizontal and a vertical classified line meet within 3 units
Crosses(h, v) ==
    /\ v.pos >= h.start - 24 /\ v.pos <= h.end + 24
    /\ h.pos >= Min(v.start, v.end) - 24 /\ h.pos <= Max(v.start, v.end) + 24

\* l meets no perpendicular classified line of its page
Isolated(l) ==
    \A m \in Range(LinesOfPage(l.el.page)) :
        m.dir # l.dir => ~(IF l.dir = "h" THEN Crosses(l, m) ELSE Crosses(m, l))

\* C7: a classified line that meets no perpendicular line of its page is in no
\* table's lineIds, and an input of one line gives no table.
C7_IsolatedLines ==
    /\ \A i \in 1..Len(tables) :
          \A l \in Range(LinesOfPage(tables[i].page)) :
              Isolated(l) => l.el.id \notin Range(tables[i].lineIds)
    /\ Len(elements) = 1 => tables = <<>>

\* a finished run that returned a table of a page holding an isolated line
C7_Witness ==
    /\ pc = "done"
    /\ \E i \in 1..Len(tables) :
          \E l \in Range(LinesOfPage(tables[i].page)) : Isolated(l)

\* the loop over the components of a page has ended
PageFinished == pc = "comp" /\ compIdx > Len(components)

\* The classified lines of page p split in two: the lines reached from the
\* first horizontal line, and the rest.
GroupOneV(p) ==
    LET hs == SelectSeq(LinesOfPage(p), IsH)
    IN  {v \in Range(SelectSeq(LinesOfPage(p), IsV)) : Crosses(hs[1], v)}
GroupOneH(p) ==
    {h \in Range(SelectSeq(LinesOfPage(p), IsH)) :
        \E v \in GroupOneV(p) : Crosses(h, v)}
GroupTwoV(p) == Range(SelectSeq(LinesOfPage(p), IsV)) \ GroupOneV(p)
GroupTwoH(p) == Range(SelectSeq(LinesOfPage(p), IsH)) \ GroupOneH(p)

\* at least 2 lines each way, every horizontal one meeting every vertical one
FullGrid(H, V) ==
    /\ Cardinality(H) >= 2
    /\ Cardinality(V) >= 2
    /\ \A h \in H, v \in V : Crosses(h, v)

\* page p holds two grids of mutually intersecting lines, and no line of one
\* meets a line of the other
TwoGrids(p) ==
    /\ SelectSeq(LinesOfPage(p), IsH) # <<>>
    /\ FullGrid(GroupOneH(p), GroupOneV(p))
    /\ FullGrid(GroupTwoH(p), GroupTwoV(p))
    /\ \A h \in GroupOneH(p), v \in GroupTwoV(p) : ~Crosses(h, v)
    /\ \A h \in GroupTwoH(p), v \in GroupOneV(p) : ~Crosses(h, v)

\* some two lines of L have snapped positions more than 1.5 apart
Spread(L) == \E a, b \in L : a.pos - b.pos > 12

\* the extent of the primitives of a set of lines along each axis
LowX(L) == CHOOSE m \in {l.el.x : l \in L} : \A l \in L : m <= l.el.x
HighX(L) ==
    CHOOSE m \in {l.el.x + Abs(l.el.width) : l \in L} :
        \A l \in L : m >= l.el.x + Abs(l.el.width)
LowY(L) == CHOOSE m \in {l.el.y : l \in L} : \A l \in L : m <= l.el.y
HighY(L) ==
    CHOOSE m \in {l.el.y + Abs(l.el.height) : l \in L} :
        \A l \in L : m >= l.el.y + Abs(l.el.height)

\* along one axis, every primitive of L lies more than 3 units beyond every
\* primitive of K
Apart(L, K) ==
    \/ HighX(L) + 24 < LowX(K)
    \/ HighX(K) + 24 < LowX(L)
    \/ HighY(L) + 24 < LowY(K)
    \/ HighY(K) + 24 < LowY(L)

BoxesOverlap(s, t) ==
    /\ s.x < t.x + t.width /\ t.x < s.x + s.width
    /\ s.y < t.y + t.height /\ t.y < s.y + s.height

IdsZeroOne(p, ts) ==
    /\ Len(ts) = 2
    /\ ts[1].id = "table-p" \o ToString(p) \o "-0"
    /\ ts[2].id = "table-p" \o ToString(p) \o "-1"

\* C8 as stated: two grids on one page, each of mutually intersecting lines,
\* no line of one meeting a line of the other, give exactly two tables with
\* the ids -0 and -1 and bounding boxes that do not overlap.
C8_TwoGrids_AsStated ==
    LET p == byPage[pageIdx].page
    IN  (PageFinished /\ TwoGrids(p)) =>
            /\ IdsZeroOne(p, TablesOfPage(p))
            /\ ~BoxesOverlap(TablesOfPage(p)[1], TablesOfPage(p)[2])

\* C8 amended: if moreover each grid has horizontal lines, and vertical lines,
\* with snapped positions more than 1.5 apart, exactly two tables with the ids
\* -0 and -1 come out; their bounding boxes do not overlap when the grids lie
\* more than 3 units apart along an axis (a grid inside a cell of the other
\* gives overlapping boxes).
C8_TwoGrids_Apart ==
    LET p == byPage[pageIdx].page
    IN  (/\ PageFinished
         /\ TwoGrids(p)
         /\ Spread(GroupOneH(p)) /\ Spread(GroupOneV(p))
         /\ Spread(GroupTwoH(p)) /\ Spread(GroupTwoV(p))) =>
            /\ IdsZeroOne(p, TablesOfPage(p))
            /\ Apart(GroupOneH(p) \cup GroupOneV(p), GroupTwoH(p) \cup GroupTwoV(p))
                  => ~BoxesOverlap(TablesOfPage(p)[1], TablesOfPage(p)[2])

\* the page of scenario D is finished: two grids far apart, two tables
C8_Witness ==
    LET p == byPage[pageIdx].page
    IN  /\ PageFinished
        /\ TwoGrids(p)
        /\ Spread(GroupOneH(p)) /\ Spread(GroupOneV(p))
        /\ Spread(GroupTwoH(p)) /\ Spread(GroupTwoV(p))
        /\ Apart(GroupOneH(p) \cup GroupOneV(p), GroupTwoH(p) \cup GroupTwoV(p))
        /\ Len(TablesOfPage(p)) = 2

\* every id in the textElementIds of some cell of some table
AttachedTextIds ==
    UNION { UNION { UNION { Range(tables[i].cells[r][c].textElementIds) :
                            c \in 1..Len(tables[i].cells[r]) } :
                    r \in 1..Len(tables[i].cells) } :
            i \in 1..Len(tables) }

AllLineIds == UNION { Range(tables[i].lineIds) : i \in 1..Len(tables) }

IsRuling(e) == e.type = "line" \/ e.type = "rect"

\* Nothing detectTables dereferences is undefined (a TypeError in the source):
\* the page of the loop is an entry of byPage, every member of a component
\* indexes allLines, and cells[r][c] exists for r < rows and c < cols.
NoRaise ==
    /\ pc \in {"start", "page", "union", "comp", "done"}
    /\ pc \in {"union", "comp"} => pageIdx \in 1..Len(byPage)
    /\ pc = "comp" =>
          \A k \in 1..Len(components) :
              /\ components[k].members # <<>>
              /\ Range(components[k].members) \subseteq 1..(Len(hLines) + Len(vLines))
    /\ \A i \in 1..Len(tables) :
          /\ DOMAIN tables[i].cells = 1..tables[i].rows
          /\ \A r \in DOMAIN tables[i].cells :
                DOMAIN tables[i].cells[r] = 1..tables[i].cols

\* detectTables raises nothing and omits what is degenerate: a page with
\* fewer than 2 lines on an axis gives no table, a zero-area primitive is in
\* no lineIds, a text with empty content is in no cell.
RunsToReturnAndOmits ==
    /\ NoRaise
    /\ elements = <<>> => tables = <<>>
    /\ \A i \in 1..Len(tables) :
          ~SkipsPage(SelectSeq(LinesOfPage(tables[i].page), IsH),
                     SelectSeq(LinesOfPage(tables[i].page), IsV))
    /\ \A k \in 1..Len(elements) :
          LET e == elements[k]
          IN  /\ (IsRuling(e) /\ e.width = 0 /\ e.height = 0) => e.id \notin AllLineIds
              /\ (e.type = "text" /\ e.str = "") => e.id \notin AttachedTextIds

\* C10 as stated: no input with numeric geometry makes detectTables raise, and
\* the empty list, pages with too few lines, zero-area primitives, lines of
\* zero thickness and empty text all contribute no table and no cell text.
C10_Omission_AsStated ==
    /\ RunsToReturnAndOmits
    /\ \A k \in 1..Len(elements) :
          LET e == elements[k]
          IN  (IsRuling(e) /\ (e.width = 0 \/ e.height = 0)) => e.id \notin AllLineIds

\* C10 amended: detectTables never raises; the empty list, pages with too few
\* lines, zero-area primitives and empty text contribute no table and no cell
\* text; a line of zero thickness raises nothing either, but it is a ruling
\* like any other and does contribute to tables.
C10_Omission ==
    /\ RunsToReturnAndOmits
    /\ \A k \in 1..Len(elements) :
          LET e == elements[k]
              w == Abs(e.width)
              h == Abs(e.height)
          IN  (IsRuling(e) /\ (w = 0 \/ h = 0) /\ ~(w < 4 /\ h < 4)) =>
                  Len(classifyOne(e)) = 1

\* the run on the degenerate input has returned the one table of its box
C10_Witness ==
    /\ pc = "done"
    /\ elements = ScenarioDegenerate
    /\ Len(tables) = 1
    /\ AttachedTextIds = {"t1"}

-----------------------------------------------------------------------------
(* Calls of the helper functions on their own *)

\* no call of detectTables is in progress; uf is left open
Idle ==
    /\ elements = <<>>
    /\ pc = "none"
    /\ byPage = <<>>
    /\ pageIdx = 1
    /\ hLines = <<>>
    /\ hi = 1
    /\ vi = 1
    /\ vLines = <<>>
    /\ components = <<>>
    /\ compIdx = 1
    /\ tableIdx = 0
    /\ tables = <<>>
    /\ prior = <<>>
    /\ NoLoad

NoCall == Idle /\ uf = NewUnionFind(0)

\* sizes in eighths around the thresholds 0.5, 3 and 5 and around the ratio 4
\* for a thin side of 3, 3.25, 5 and 5.25; every size also negated
SizesAbs == {0, 2, 4, 22, 24, 26, 40, 42, 96, 98, 104, 106, 160, 162, 168, 170}
Sizes == SizesAbs \cup {-n : n \in SizesAbs}
\* origins whose centres fall on, next to and between multiples of 1.5
Origins == {<<0, 0>>, <<6, -6>>, <<2, 10>>, <<-14, 7>>}

Shape(id, type, o, w, h) ==
    [id |-> id, page |-> 1, type |-> type, str |-> IF type = "text" THEN "s" ELSE "",
     x |-> o[1], y |-> o[2], width |-> w, height |-> h]

\* every one-element list, and every two-element list of a few shapes
ClassifyArgs ==
    { <<Shape("p1", ty, o, w, h)>> :
        ty \in {"line", "rect", "text"}, o \in Origins, w \in Sizes, h \in Sizes }
    \cup
    { <<Shape("p1", ty, <<0, 0>>, w, 2), Shape("p2", "line", <<6, -6>>, v, 98)>> :
        ty \in {"line", "text"}, w \in {0, 2, 98}, v \in {2, 24, 26} }

InitClassify ==
    /\ NoCall
    /\ arg \in ClassifyArgs
    /\ ret = <<>>

\* lines 47-78
CallClassify ==
    /\ pc = "none"
    /\ arg \in ClassifyArgs
    /\ ret = <<>>
    /\ ret' = <<classifyLines(arg)>>
    /\ UNCHANGED <<call, prior, arg, load>>

SpecClassify == InitClassify /\ [][CallClassify]_vars

\* a UnionFind of size UFSize on its own: any sequence of union and find
InitUF ==
    /\ Idle
    /\ uf = NewUnionFind(UFSize)
    /\ arg = <<>>
    /\ ret = <<>>

\* lines 105-111; union returns nothing
CallUnion ==
    /\ pc = "none"
    /\ \E a, b \in 1..UFSize :
          /\ uf' = union(uf, a, b)
          /\ arg' = <<"union", a, b>>
    /\ ret' = <<>>
    /\ UNCHANGED <<elements, pc, byPage, pageIdx, hLines, hi, vi, vLines,
                   components, compIdx, tableIdx, tables, prior, load>>

\* lines 100-103
CallFind ==
    /\ pc = "none"
    /\ \E x \in 1..UFSize :
          /\ uf' = find(uf, x)
          /\ arg' = <<"find", x>>
          /\ ret' = <<FindRoot(uf.parent, x)>>
    /\ UNCHANGED <<elements, pc, byPage, pageIdx, hLines, hi, vi, vLines,
                   components, compIdx, tableIdx, tables, prior, load>>

NextUF ==
    \/ CallUnion
    \/ CallFind

SpecUF == InitUF /\ [][NextUF]_vars

\* values in eighths whose differences lie below, at and above 1.5
DedupValues == {0, 6, 12, 13, 24, 25, 26, 38}

\* the ascending lists of at most MaxLen values, repeats included
DedupArgs ==
    UNION { { a \in [1..n -> DedupValues] :
                \A i \in 1..(n - 1) : a[i] <= a[i + 1] } : n \in 0..MaxLen }

InitDedup ==
    /\ NoCall
    /\ arg \in DedupArgs
    /\ ret = <<>>

\* lines 115-122, tol left at its default
CallDedup ==
    /\ pc = "none"
    /\ arg \in DedupArgs
    /\ ret = <<>>
    /\ ret' = <<dedup(arg)>>
    /\ UNCHANGED <<call, prior, arg, load>>

SpecDedup == InitDedup /\ [][CallDedup]_vars

-----------------------------------------------------------------------------
(* C11 *)

\* C11: the tables of page p in the result of a call on the whole list are
\* the result of a call on the primitives of page p alone: same ids,
\* geometry, cells, text and lineIds, in the same order.
C11_PageIndependence ==
    (pc = "done" /\ prior # <<>>) =>
        tables = SelectSeq(prior[1].tables,
                           LAMBDA t : t.page = elements[1].page)

\* both calls have returned; the whole list had tables on two pages and a
\* text run on each, and the page called alone has a table
C11_Witness ==
    /\ pc = "done" /\ prior # <<>>
    /\ tables # <<>>
    /\ {t.page : t \in Range(prior[1].tables)} = {1, 2}
    /\ \A p \in {1, 2} : textElsOf(OnPage(prior[1].elements, p)) # <<>>

-----------------------------------------------------------------------------
(* C12 *)

\* C12: no step of detectTables changes its argument: the list keeps its
\* length, order and field values, every primitive the call holds (in
\* byPage and in the classified lines) is a primitive of the argument as it
\* was passed, and a table that has been pushed is not changed afterwards.
C12_InputUnchanged ==
    [][ /\ elements' = elements
        /\ \A k \in 1..Len(byPage') :
               byPage'[k].els = OnPage(elements, byPage'[k].page)
        /\ \A l \in Range(hLines' \o vLines') : l.el \in Range(elements)
        /\ Len(tables') >= Len(tables)
        /\ SubSeq(tables', 1, Len(tables)) = tables ]_vars

\* the call has returned a table one of whose lines has a negative height
C12_Witness ==
    /\ pc = "done"
    /\ \E t \in Range(tables), e \in Range(elements) :
           e.height < 0 /\ e.id \in Range(t.lineIds)

-----------------------------------------------------------------------------
(* C13 *)

\* the decision the claim states for one primitive, in eighths: "h", "v" or
\* "none"; the ratios are only read where the thin side is at least 3
ClaimedDir(e) ==
    LET w == Abs(e.width)
        h == Abs(e.height)
    IN  IF e.type = "text" THEN "none"
        ELSE IF w < 4 /\ h < 4 THEN "none"
        ELSE IF h < 24 \/ (w > 40 /\ w > 4 * h) THEN "h"
        ELSE IF w < 24 \/ (h > 40 /\ h > 4 * w) THEN "v"
        ELSE "none"

LinesOf(out, e) == SelectSeq(out, LAMBDA l : l.el = e)

\* C13: classifyLines never classifies a text primitive, discards a line or
\* rect with w < 0.5 and h < 0.5, else classifies it horizontal if h < 3 or
\* (w > 5 and w/h > 4), else vertical if w < 3 or (h > 5 and h/w > 4), else
\* discards it; a primitive yields at most one line, and one that meets both
\* conditions is horizontal only.
C13_Classification ==
    ret # <<>> =>
        /\ \A l \in Range(ret[1]) : l.el \in Range(arg)
        /\ \A e \in Range(arg) :
              LET ls == LinesOf(ret[1], e)
              IN  IF ClaimedDir(e) = "none" THEN ls = <<>>
                  ELSE Len(ls) = 1 /\ ls[1].dir = ClaimedDir(e)

\* classifyLines has returned for a rect that meets the horizontal and the
\* vertical condition (both sides below 3, one at least 0.5)
C13_Witness ==
    /\ ret # <<>>
    /\ \E e \in Range(arg) :
          /\ e.type = "rect"
          /\ Abs(e.width) < 24 /\ Abs(e.height) < 24 /\ Abs(e.width) >= 4
          /\ LinesOf(ret[1], e) # <<>>

-----------------------------------------------------------------------------
(* C14 *)

\* the centre of a classified line along its thin axis
Centre(l) ==
    IF l.dir = "h" THEN l.el.y + Abs(l.el.height) \div 2
    ELSE l.el.x + Abs(l.el.width) \div 2

\* C14: pos of a classified line is a multiple of 1.5 at most 0.75 from the
\* centre y + h/2 (horizontal) or x + w/2 (vertical) with h, w the absolute
\* sizes, the range is [x, x + w] (horizontal) or [y, y + h] (vertical), and
\* start <= end.
C14_SnappedPosition ==
    ret # <<>> =>
        \A l \in Range(ret[1]) :
            /\ l.pos % 12 = 0
            /\ Abs(l.pos - Centre(l)) <= 6
            /\ l.dir = "h" => l.start = l.el.x /\ l.end = l.el.x + Abs(l.el.width)
            /\ l.dir = "v" => l.start = l.el.y /\ l.end = l.el.y + Abs(l.el.height)
            /\ l.start <= l.end

\* classifyLines has returned a horizontal line of negative width and
\* height whose centre is exactly halfway between two multiples of 1.5
C14_Witness ==
    /\ ret # <<>>
    /\ \E l \in Range(ret[1]) :
          /\ l.dir = "h" /\ l.el.width < 0 /\ l.el.height < 0
          /\ Abs(l.pos - Centre(l)) = 6

-----------------------------------------------------------------------------
(* C15 *)

SameRoot(u, a, b) == FindRoot(u.parent, a) = FindRoot(u.parent, b)

\* what the claim states for a horizontal line h and a vertical line v
ClaimedHit(h, v) ==
    /\ h.start - 24 <= v.pos /\ v.pos <= h.end + 24
    /\ Min(v.start, v.end) - 24 <= h.pos /\ h.pos <= Max(v.start, v.end) + 24

\* C15: each step of the union loop tests one horizontal line against one
\* vertical line of the same page; the two are joined exactly when v.pos is
\* in [h.start - 3, h.end + 3] and h.pos is in [min(v.start, v.end) - 3,
\* max(v.start, v.end) + 3], bounds included, and a pair outside these
\* ranges leaves the components as they were.
C15_IntersectsTolerance ==
    [][ (pc = "union" /\ hi <= Len(hLines)) =>
            /\ vi \in 1..Len(vLines)
            /\ hLines[hi].dir = "h" /\ vLines[vi].dir = "v"
            /\ hLines[hi].el.page = byPage[pageIdx].page
            /\ vLines[vi].el.page = byPage[pageIdx].page
            /\ IF ClaimedHit(hLines[hi], vLines[vi])
               THEN SameRoot(uf', hi, Len(hLines) + vi)
               ELSE \A i, j \in DOMAIN uf.parent :
                       SameRoot(uf', i, j) <=> SameRoot(uf, i, j) ]_vars

\* the union loop has joined a pair whose vertical line lies exactly 3
\* beyond the end of the horizontal line, and has passed a pair 3.25 apart
C15_Witness ==
    /\ pc = "union"
    /\ hi = 2 /\ vi = 1
    /\ Len(vLines) = 4
    /\ vLines[1].pos = hLines[1].end + 24
    /\ SameRoot(uf, 1, Len(hLines) + 1)
    /\ Min(vLines[4].start, vLines[4].end) - 24 = hLines[1].pos + 2
    /\ ~SameRoot(uf, 1, Len(hLines) + 4)

-----------------------------------------------------------------------------
(* C16 *)

\* the classified lines of the current page, horizontal first, as the
\* union-find numbers them
AllLines == hLines \o vLines

\* lines i and j are a horizontal/vertical pair that satisfies intersects
Linked(i, j) ==
    \/ i <= Len(hLines) /\ j > Len(hLines) /\ intersects(AllLines[i], AllLines[j])
    \/ j <= Len(hLines) /\ i > Len(hLines) /\ intersects(AllLines[j], AllLines[i])

\* the lines a chain of such pairs reaches from the lines of S
RECURSIVE ReachedFrom(_)
ReachedFrom(S) ==
    LET T == S \cup {j \in DOMAIN AllLines : \E i \in S : Linked(i, j)}
    IN  IF T = S THEN S ELSE ReachedFrom(T)

ComponentsOf(i) ==
    {k \in DOMAIN components : i \in Range(components[k].members)}

\* C16: after the union loop of a page every classified line of the page is
\* in exactly one component, and two lines are in the same component if and
\* only if a chain of intersecting horizontal/vertical pairs links them.
C16_Components ==
    pc = "comp" =>
        /\ \A i \in DOMAIN AllLines : Cardinality(ComponentsOf(i)) = 1
        /\ \A k \in DOMAIN components :
               /\ Range(components[k].members) \subseteq DOMAIN AllLines
               /\ Cardinality(Range(components[k].members))
                      = Len(components[k].members)
        /\ \A i \in DOMAIN AllLines :
               LET reached == ReachedFrom({i})
                   own == ComponentsOf(i)
               IN  \A j \in DOMAIN AllLines :
                       ComponentsOf(j) = own <=> j \in reached

\* the page has two components of four or more lines, one of them with two
\* horizontal lines that only a chain links, and a line on its own
C16_Witness ==
    /\ pc = "comp"
    /\ Cardinality({k \in DOMAIN components :
                       Len(components[k].members) >= 4}) >= 2
    /\ \E k \in DOMAIN components : Len(components[k].members) = 1

-----------------------------------------------------------------------------
(* C17 *)

\* the k-th ancestor of i along the parent pointers
RECURSIVE Ancestor(_, _, _)
Ancestor(par, i, k) == IF k = 0 THEN i ELSE par[Ancestor(par, i, k - 1)]

\* from every index the parent pointers stay in range and reach a
\* self-parented root in fewer steps than there are indices
IsForest(u) ==
    /\ \A i \in DOMAIN u.parent : u.parent[i] \in DOMAIN u.parent
    /\ \A i \in DOMAIN u.parent :
          LET r == Ancestor(u.parent, i, Len(u.parent) - 1)
          IN  u.parent[r] = r

SetOf(u, i) == {j \in DOMAIN u.parent : SameRoot(u, i, j)}
Partition(u) == {SetOf(u, i) : i \in DOMAIN u.parent}

\* C17 (state part): after any sequence of union and find the parent array
\* is a forest and every non-root has a rank strictly below its parent's.
C17_Forest ==
    /\ IsForest(uf)
    /\ \A i \in DOMAIN uf.parent :
          uf.parent[i] # i => uf.rank[i] < uf.rank[uf.parent[i]]

\* C17: the state part holds after every call; union(a, b) replaces the
\* sets of a and b by their union and leaves every other set, and all sets
\* when a and b are already joined; find(x) returns the root of x and
\* leaves every set.
C17_UnionFind ==
    [][ /\ C17_Forest'
        /\ arg'[1] = "union" =>
              Partition(uf') =
                  (Partition(uf) \ {SetOf(uf, arg'[2]), SetOf(uf, arg'[3])})
                  \cup {SetOf(uf, arg'[2]) \cup SetOf(uf, arg'[3])}
        /\ arg'[1] = "find" =>
              /\ Partition(uf') = Partition(uf)
              /\ uf.parent[ret'[1]] = ret'[1]
              /\ ret'[1] \in SetOf(uf, arg'[2])
              /\ uf'.parent[arg'[2]] = ret'[1] ]_vars

\* find has compressed a path of length two in a tree whose root has rank 2
\* and that holds every index
C17_Witness ==
    /\ arg # <<>> /\ arg[1] = "find"
    /\ \E i \in DOMAIN uf.parent : uf.rank[i] = 2
    /\ Cardinality(Partition(uf)) = 1
    /\ \A i \in DOMAIN uf.parent : uf.parent[uf.parent[i]] = uf.parent[i]

-----------------------------------------------------------------------------
(* C18 *)

\* the k-th smallest index of the set K
NthOf(K, k) == CHOOSE i \in K : Cardinality({j \in K : j <= i}) = k
\* the entries of a whose index is in K, in order
Kept(a, K) == [k \in 1..Cardinality(K) |-> a[NthOf(K, k)]]
\* the greatest index of K below i
LastBefore(K, i) == CHOOSE k \in K : k < i /\ \A j \in K : j < i => j <= k

\* C18: dedup of an empty list is empty; of a non-empty ascending list it
\* is a subsequence that starts with the smallest value, whose consecutive
\* differences all exceed 1.5, and that leaves out a value exactly when it
\* is within 1.5 of the value kept last before it; dedup(dedup(a)) =
\* dedup(a).
C18_Dedup ==
    ret # <<>> =>
        LET out == ret[1]
        IN  /\ arg = <<>> => out = <<>>
            /\ arg # <<>> =>
                  /\ out # <<>> /\ out[1] = arg[1]
                  /\ \A i \in DOMAIN arg : out[1] <= arg[i]
                  /\ \A k \in 1..(Len(out) - 1) : out[k + 1] - out[k] > 12
                  /\ \E K \in SUBSET (DOMAIN arg) :
                        /\ 1 \in K
                        /\ out = Kept(arg, K)
                        /\ \A i \in DOMAIN arg \ {1} :
                              i \in K <=> arg[i] - arg[LastBefore(K, i)] > 12
            /\ dedup(out) = out

\* dedup has returned for a list of four values: the second and the third
\* are dropped, the third being exactly 1.5 above the first, and the fourth
\* is kept because it is more than 1.5 above the first
C18_Witness ==
    /\ ret # <<>>
    /\ Len(arg) = 4 /\ Len(ret[1]) = 2
    /\ arg[2] - arg[1] < 12 /\ arg[3] - arg[2] > 0
    /\ arg[3] - arg[1] = 12
    /\ arg[4] - arg[1] > 12

-----------------------------------------------------------------------------
(* C19 *)

\* the deduplicated sorted coordinates of the lines a table names
YsOf(t) == dedup(SortAsc(Positions(SelectSeq(SourceLines(t), IsH))))
XsOf(t) == dedup(SortAsc(Positions(SelectSeq(SourceLines(t), IsV))))

\* C19: in every emitted table, with xs and ys the deduplicated sorted
\* coordinates of its component (indices from 0 in the source, from 1 here),
\* cells[r][c] has row r, col c, x = xs[c], y = ys[r], width = xs[c+1] -
\* xs[c] and height = ys[r+1] - ys[r]; x grows strictly with c and y with r,
\* cells next to each other in a row share an edge, and the table has
\* x = xs[0], y = ys[0], width = xs[last] - xs[0], height = ys[last] - ys[0].
C19_CellGeometry ==
    \A i \in 1..Len(tables) :
        LET t == tables[i]
            xs == XsOf(t)
            ys == YsOf(t)
        IN  /\ DOMAIN t.cells = 1..(Len(ys) - 1)
            /\ \A r \in DOMAIN t.cells :
                  /\ DOMAIN t.cells[r] = 1..(Len(xs) - 1)
                  /\ \A c \in DOMAIN t.cells[r] :
                        LET cell == t.cells[r][c]
                        IN  /\ cell.row = r - 1 /\ cell.col = c - 1
                            /\ cell.x = xs[c] /\ cell.y = ys[r]
                            /\ cell.width = xs[c + 1] - xs[c]
                            /\ cell.height = ys[r + 1] - ys[r]
                            /\ c > 1 => /\ t.cells[r][c - 1].x < cell.x
                                        /\ t.cells[r][c - 1].x
                                              + t.cells[r][c - 1].width = cell.x
                            /\ r > 1 => t.cells[r - 1][c].y < cell.y
            /\ t.x = xs[1] /\ t.y = ys[1]
            /\ t.width = xs[Len(xs)] - xs[1]
            /\ t.height = ys[Len(ys)] - ys[1]

\* a table of at least 2 rows and 2 columns whose left edge is not at 0 has
\* been emitted
C19_Witness ==
    \E i \in 1..Len(tables) :
        /\ tables[i].rows >= 2 /\ tables[i].cols >= 2
        /\ tables[i].x > 0

-----------------------------------------------------------------------------
(* C20 *)

\* the centroid of e is within 1 of the cell on both axes, bounds included
ClaimedInCell(cell, e) ==
    LET tx == e.x + e.width \div 2
        ty == e.y + e.height \div 2
    IN  /\ cell.x - 8 <= tx /\ tx <= cell.x + cell.width + 8
        /\ Min(cell.y, cell.y + cell.height) - 8 <= ty
        /\ ty <= Max(cell.y, cell.y + cell.height) + 8

CellsOf(t) == {t.cells[r][c] : r \in 1..t.rows, c \in 1..t.cols}
TextIdsOf(t) == UNION {Range(cell.textElementIds) : cell \in CellsOf(t)}

\* C20: the id of a primitive is in a cell's textElementIds if and only if
\* the primitive is a text run of the table's page with non-empty content
\* whose centroid (x + width/2, y + height/2) lies within 1 of the cell on
\* both axes, bounds included, whatever other cells or tables hold.
C20_TextAttachment ==
    \A i \in 1..Len(tables) :
        \A cell \in CellsOf(tables[i]) :
            \A e \in Range(elements) :
                e.id \in Range(cell.textElementIds)
                    <=> /\ e.type = "text"
                        /\ e.page = tables[i].page
                        /\ e.str # ""
                        /\ ClaimedInCell(cell, e)

\* the same text run is attached to cells of two tables of one page
C20_Witness ==
    \E i, j \in 1..Len(tables) :
        /\ i # j
        /\ tables[i].page = tables[j].page
        /\ TextIdsOf(tables[i]) \cap TextIdsOf(tables[j]) # {}

\* a text run whose centroid is exactly 1 outside a cell is attached to it
C20_AtTolerance ==
    \E i \in 1..Len(tables) :
        \E cell \in CellsOf(tables[i]) :
            \E e \in Range(elements) :
                /\ e.id \in Range(cell.textElementIds)
                /\ e.x + e.width \div 2 = cell.x + cell.width + 8

-----------------------------------------------------------------------------
(* C21 *)

\* the strings of a list joined by one space
RECURSIVE Joined(_)
Joined(strs) ==
    IF strs = <<>> THEN ""
    ELSE IF Len(strs) = 1 THEN strs[1]
    ELSE strs[1] \o " " \o Joined(Tail(strs))

\* the primitives a cell names, in the order of the input list
NamedBy(cell) == SelectSeq(elements, LAMBDA e : e.id \in Range(cell.textElementIds))

\* C21: in every cell textElementIds lists the attached text primitives in
\* input order, each once, and text is their contents in that order joined
\* by one space, with nothing before the first or after the last; a cell
\* without a match has text "" and no ids.
C21_CellText ==
    \A i \in 1..Len(tables) :
        \A cell \in CellsOf(tables[i]) :
            LET m == NamedBy(cell)
            IN  /\ cell.textElementIds = [k \in 1..Len(m) |-> m[k].id]
                /\ cell.text = Joined([k \in 1..Len(m) |-> m[k].str])
                /\ cell.textElementIds = <<>> => cell.text = ""

\* a cell holds four text runs in input order, another cell of the same
\* table holds none
C21_Witness ==
    \E i \in 1..Len(tables) :
        \E c1, c2 \in CellsOf(tables[i]) :
            /\ c1.textElementIds = <<"w3", "w1", "w2", "w4">>
            /\ c1.text = "c a b d"
            /\ c2.textElementIds = <<>>

-----------------------------------------------------------------------------
(* C22 *)

\* the indices, in hLines followed by vLines, of the lines a table names
LineIndicesOf(t) == {i \in DOMAIN AllLines : AllLines[i].el.id \in Range(t.lineIds)}

MinOf(S) == CHOOSE m \in S : \A x \in S : m <= x

\* the tables emitted so far for the page being processed
TablesOfCurrentPage ==
    SelectSeq(tables, LAMBDA t : t.page = byPage[pageIdx].page)

\* C22: within a page, tables are emitted in ascending order of the
\* smallest line index of their component, the index counting the
\* horizontal lines in input order and then the vertical ones; this is the
\* order in which the scan of indices first meets each component's root.
C22_EmissionOrder ==
    pc = "comp" =>
        LET ts == TablesOfCurrentPage
        IN  /\ \A k \in 1..Len(ts) : LineIndicesOf(ts[k]) # {}
            /\ \A k, l \in 1..Len(ts) :
                   k < l => MinOf(LineIndicesOf(ts[k])) < MinOf(LineIndicesOf(ts[l]))

\* two tables of one page have been emitted, and the first one's component
\* has the larger root
C22_Witness ==
    /\ pc = "comp"
    /\ compIdx > Len(components)
    /\ Len(TablesOfCurrentPage) = 2
    /\ \E k, l \in 1..Len(components) :
           /\ k < l
           /\ components[k].root > components[l].root
           /\ MinOf(LineIndicesOf(TablesOfCurrentPage[1])) \in Range(components[k].members)
           /\ MinOf(LineIndicesOf(TablesOfCurrentPage[2])) \in Range(components[l].members)

-----------------------------------------------------------------------------
(* C23 *)

\* the position in the Map of the component a table was built from
CompOf(t) ==
    CHOOSE k \in DOMAIN components :
        MinOf(LineIndicesOf(t)) \in Range(components[k].members)

\* the Union-Find root index of the component a table was built from
RootOf(t) == components[CompOf(t)].root

\* C23 as stated: if table A is emitted before table B on the same page,
\* the root index of A's component is smaller than that of B's component.
C23_AscendingRoot ==
    pc = "comp" =>
        LET ts == TablesOfCurrentPage
        IN  \A k, l \in 1..Len(ts) : k < l => RootOf(ts[k]) < RootOf(ts[l])

\* C23 amended: components are iterated in the order in which the scan of
\* the line indices discovers their roots: each component's key is the
\* root of all its members, an earlier component holds the smaller first
\* member, and a table emitted earlier comes from an earlier component.
C23_RootDiscoveryOrder ==
    pc = "comp" =>
        LET ts == TablesOfCurrentPage
        IN  /\ \A k \in DOMAIN components :
                   \A m \in Range(components[k].members) :
                       FindRoot(uf.parent, m) = components[k].root
            /\ \A k, l \in DOMAIN components :
                   k < l => components[k].members[1] < components[l].members[1]
            /\ \A k, l \in 1..Len(ts) : k < l => CompOf(ts[k]) < CompOf(ts[l])

\* table 0 of a page comes from the component with root index 3, table 1
\* from the component with the smaller root index 2
C23_Witness ==
    /\ pc = "comp"
    /\ Len(TablesOfCurrentPage) = 2
    /\ RootOf(TablesOfCurrentPage[1]) = 3
    /\ RootOf(TablesOfCurrentPage[2]) = 2

-----------------------------------------------------------------------------
(* C24 *)
(* detectTables followed by the same algorithm with the check of line 137
   taken out, on the same argument *)

\* line 126 entered again with the same argument; prior keeps the result of
\* the call that has returned
CallWithoutCheck ==
    /\ pc = "done"
    /\ prior = <<>>
    /\ prior' = <<[elements |-> elements, tables |-> tables]>>
    /\ pc' = "start"
    /\ byPage' = <<>>
    /\ pageIdx' = 1
    /\ hLines' = <<>>
    /\ hi' = 1
    /\ vi' = 1
    /\ vLines' = <<>>
    /\ uf' = NewUnionFind(0)
    /\ components' = <<>>
    /\ compIdx' = 1
    /\ tableIdx' = 0
    /\ tables' = <<>>
    /\ UNCHANGED <<elements, arg, ret, load>>

\* lines 136-147 without lines 137-141, on a page with fewer than two
\* lines on an axis: the nested loops of lines 149-155 have no iteration
\* when there is no vertical line
ClassifyShortPage ==
    /\ pc = "page"
    /\ pageIdx <= Len(byPage)
    /\ LET lines == classifyLines(byPage[pageIdx].els)
           hs == SelectSeq(lines, IsH)
           vs == SelectSeq(lines, IsV)
       IN  /\ SkipsPage(hs, vs)
           /\ hLines' = hs
           /\ vLines' = vs
           /\ uf' = NewUnionFind(Len(hs) + Len(vs))
           /\ hi' = IF vs = <<>> THEN Len(hs) + 1 ELSE 1
    /\ vi' = 1
    /\ pc' = "union"
    /\ UNCHANGED <<prior, arg, ret, load>>
    /\ UNCHANGED <<elements, byPage, pageIdx, components, compIdx, tableIdx,
                   tables>>

NextWithoutCheck ==
    \/ ClassifyShortPage
    \/ GroupByPage
    \/ ClassifyPage
    \/ UnionStep
    \/ GroupComponents
    \/ DropComponent
    \/ EmitTable
    \/ NextPage
    \/ Return

NextBoth ==
    \/ prior = <<>> /\ Next
    \/ CallWithoutCheck
    \/ prior # <<>> /\ NextWithoutCheck

SpecBoth == Init /\ [][NextBoth]_vars

\* a page of the input that the check of line 137 skips
ShortPage(p) ==
    LET lines == LinesOfPage(p)
    IN  SkipsPage(SelectSeq(lines, IsH), SelectSeq(lines, IsV))

\* C24: the algorithm without the page-level check returns, for every
\* input, the tables detectTables returns.
C24_CheckIsShortCircuit ==
    (pc = "done" /\ prior # <<>>) => tables = prior[1].tables

\* both runs have returned a table, and the input has a page the check
\* skips on which a horizontal and a vertical line intersect
C24_Witness ==
    /\ pc = "done"
    /\ prior # <<>>
    /\ tables # <<>>
    /\ \E p \in PagesOf(elements) :
           /\ ShortPage(p)
           /\ \E i, j \in DOMAIN LinesOfPage(p) :
                  /\ IsH(LinesOfPage(p)[i])
                  /\ IsV(LinesOfPage(p)[j])
                  /\ intersects(LinesOfPage(p)[i], LinesOfPage(p)[j])

-----------------------------------------------------------------------------
(* C25 *)

\* the ids, in input order, of the primitives whose classified line has
\* direction dir and an index in S
IdsInInputOrder(S, dir) ==
    LET ids == {AllLines[i].el.id : i \in {j \in S : AllLines[j].dir = dir}}
        els == SelectSeq(elements, LAMBDA e : e.id \in ids)
    IN  [k \in 1..Len(els) |-> els[k].id]

\* C25: lineIds of a table is the ids of all classified lines of its
\* component, the horizontal ones in input order followed by the vertical
\* ones in input order, lines merged by the coordinate deduplication
\* included; every id is that of a line or rect primitive of the table's
\* page, and no id occurs twice.
C25_LineIds ==
    pc = "comp" =>
        LET ts == TablesOfCurrentPage
        IN  \A k \in 1..Len(ts) :
                LET t == ts[k]
                    comp == ReachedFrom({MinOf(LineIndicesOf(t))})
                IN  /\ t.lineIds = IdsInInputOrder(comp, "h") \o IdsInInputOrder(comp, "v")
                    /\ \A n \in 1..Len(t.lineIds) :
                           \E e \in Range(elements) :
                               /\ e.id = t.lineIds[n]
                               /\ e.page = t.page
                               /\ e.type \in {"line", "rect"}
                    /\ Cardinality(Range(t.lineIds)) = Len(t.lineIds)

\* the page has two tables, and the first one names more lines than its
\* grid has coordinates
C25_Witness ==
    /\ pc = "comp"
    /\ Len(TablesOfCurrentPage) = 2
    /\ LET t == TablesOfCurrentPage[1]
       IN  Len(t.lineIds) > t.rows + t.cols + 2

-----------------------------------------------------------------------------
(* C26 *)

\* the connected components of the page's intersection graph, as sets of
\* line indices
GraphComponents == {ReachedFrom({i}) : i \in DOMAIN AllLines}

PosOf(S, dir) == {AllLines[i].pos : i \in {j \in S : AllLines[j].dir = dir}}
MaxOf(S) == CHOOSE m \in S : \A x \in S : m >= x

\* the coordinates of direction dir deduplicate to two or more values: the
\* largest is more than SNAP above the smallest
TwoCoords(S, dir) == MaxOf(PosOf(S, dir)) - MinOf(PosOf(S, dir)) > SNAP

\* two or more lines per direction and two or more coordinates per axis
Qualifies(S) ==
    /\ Cardinality({j \in S : AllLines[j].dir = "h"}) >= 2
    /\ Cardinality({j \in S : AllLines[j].dir = "v"}) >= 2
    /\ TwoCoords(S, "h")
    /\ TwoCoords(S, "v")

\* C26: once a page is finished, every component with at least two
\* horizontal and two vertical lines and at least two deduplicated
\* coordinates per axis has exactly one table, and the page has as many
\* tables as such components.
C26_OneTablePerComponent ==
    PageFinished =>
        LET ts == TablesOfCurrentPage
            good == {S \in GraphComponents : Qualifies(S)}
        IN  /\ Len(ts) = Cardinality(good)
            /\ \A S \in good :
                   Cardinality({k \in 1..Len(ts) : LineIndicesOf(ts[k]) = S}) = 1

\* a finished page with a table and a component of two horizontal and two
\* vertical lines that is dropped for its coordinates
C26_Witness ==
    /\ PageFinished
    /\ Len(TablesOfCurrentPage) = 1
    /\ \E S \in GraphComponents :
           /\ ~Qualifies(S)
           /\ Cardinality({j \in S : AllLines[j].dir = "h"}) >= 2
           /\ Cardinality({j \in S : AllLines[j].dir = "v"}) >= 2

-----------------------------------------------------------------------------
(* C27 *)

\* C27: two different tables of the same page name no line in common.
C27_DisjointLineIds ==
    \A i, j \in 1..Len(tables) :
        (i # j /\ tables[i].page = tables[j].page)
            => Range(tables[i].lineIds) \cap Range(tables[j].lineIds) = {}

\* two tables of one page whose bounding boxes overlap, both with lines
C27_Witness ==
    \E i, j \in 1..Len(tables) :
        /\ i # j
        /\ tables[i].page = tables[j].page
        /\ BoxesOverlap(tables[i], tables[j])
        /\ Len(tables[i].lineIds) >= 4
        /\ Len(tables[j].lineIds) >= 4

-----------------------------------------------------------------------------
(* C28 *)

\* C28: every cell is at least 3 wide and 3 high (twice SNAP), so that
\* cellYMin of line 215 is cell.y and cellYMax of line 216 is
\* cell.y + cell.height.
C28_CellSize ==
    \A i \in 1..Len(tables) :
        \A cell \in CellsOf(tables[i]) :
            /\ cell.width >= 2 * SNAP
            /\ cell.height >= 2 * SNAP
            /\ Min(cell.y, cell.y + cell.height) = cell.y
            /\ Max(cell.y, cell.y + cell.height) = cell.y + cell.height

\* a cell exactly 3 wide and 3 high, in a table of six lines at the
\* coordinates 0, 1.5 and 3, of which dedup drops 1.5
C28_Witness ==
    \E i \in 1..Len(tables) :
        /\ Len(tables[i].lineIds) = 6
        /\ \E cell \in CellsOf(tables[i]) :
               cell.width = 2 * SNAP /\ cell.height = 2 * SNAP

-----------------------------------------------------------------------------
(* C29 *)

\* the cells of table t that name the text run e
CellsWith(t, e) == {cell \in CellsOf(t) : e.id \in Range(cell.textElementIds)}

\* the midpoint of a text run
CentroidX(e) == e.x + e.width \div 2
CentroidY(e) == e.y + e.height \div 2

\* the centroid of e lies in the bounding box of t enlarged by 1 unit
InEnlargedBox(t, e) ==
    LET tx == CentroidX(e)
        ty == CentroidY(e)
    IN  /\ t.x - 8 <= tx /\ tx <= t.x + t.width + 8
        /\ t.y - 8 <= ty /\ ty <= t.y + t.height + 8

\* the centroid of e is within 1 unit of a grid coordinate of t that is not
\* on its bounding box
NearInterior(t, e) ==
    \/ \E cell \in CellsOf(t) :
           cell.col > 0 /\ Abs(CentroidX(e) - cell.x) <= 8
    \/ \E cell \in CellsOf(t) :
           cell.row > 0 /\ Abs(CentroidY(e) - cell.y) <= 8

\* C29: for every table and every non-empty text run of its page, the run
\* is attached to a cell exactly when its centroid lies in the bounding box
\* enlarged by 1; it is attached to at most 4 cells, in at most 2 adjacent
\* columns and 2 adjacent rows, and to more than one cell only when the
\* centroid is within 1 of an interior grid coordinate.
C29_TextCoverage ==
    \A i \in 1..Len(tables) :
        \A n \in 1..Len(elements) :
            LET t == tables[i]
                e == elements[n]
                hit == CellsWith(t, e)
                hitCols == {cell.col : cell \in hit}
                hitRows == {cell.row : cell \in hit}
            IN  (e.page = t.page /\ IsTextEl(e)) =>
                    /\ InEnlargedBox(t, e) <=> hit # {}
                    /\ Cardinality(hit) <= 4
                    /\ \A c1, c2 \in hitCols : Abs(c1 - c2) <= 1
                    /\ \A r1, r2 \in hitRows : Abs(r1 - r2) <= 1
                    /\ Cardinality(hit) > 1 => NearInterior(t, e)

\* a text run attached to four cells of a table, another to one cell, and
\* a non-empty run of the page attached to none
C29_Witness ==
    \E i \in 1..Len(tables) :
        \E k, l, m \in 1..Len(elements) :
            /\ Cardinality(CellsWith(tables[i], elements[k])) = 4
            /\ Cardinality(CellsWith(tables[i], elements[l])) = 1
            /\ elements[m].page = tables[i].page
            /\ IsTextEl(elements[m])
            /\ CellsWith(tables[i], elements[m]) = {}

-----------------------------------------------------------------------------
(* C30 *)
(* usePdf.loadPdf and its callers in App.vue.  A call of loadPdf is one
   entry of loads; it advances one await at a time, and between two of its
   steps any other call may advance.  A file stands for what pdf.js decodes
   it to: a number of pages and the primitives lines 327-430 extract from
   each page. *)

MaxLoads == 2

PDF == "application/pdf"

\* A: one page; B: two pages, the second without a grid; N: not a PDF
Files ==
    { [name |-> "A", type |-> PDF],
      [name |-> "B", type |-> PDF],
      [name |-> "N", type |-> "text/plain"] }

\* doc.numPages
NumPages(f) == IF f.name = "A" THEN 1 ELSE 2

\* what one iteration of the loop of line 327 pushes to all
PageElements(f, p) ==
    IF f.name = "A" THEN ScenarioTolerance
    ELSE IF p = 1 THEN ScenarioA
    ELSE <<HRule("s1", 2, 0, 0, 10), VRule("s2", 2, 0, 0, 10)>>

\* getDocument(arrayBuffer).promise resolves
Decodes(f) == f.type = PDF

\* no job is queued and detectTables is not running: a new task can start
Quiet == ~pending /\ pc = "done"

\* the locals of detectTables
locals == <<pc, byPage, pageIdx, hLines, hi, vi, vLines, uf, components,
            compIdx, tableIdx, tables>>

\* App.vue after setup: the watcher, being immediate, has run detectTables
\* on the empty list
InitLoad ==
    /\ elements = <<>>
    /\ pc = "done"
    /\ byPage = <<>>
    /\ pageIdx = 1
    /\ hLines = <<>>
    /\ hi = 1
    /\ vi = 1
    /\ vLines = <<>>
    /\ uf = NewUnionFind(0)
    /\ components = <<>>
    /\ compIdx = 1
    /\ tableIdx = 0
    /\ tables = <<>>
    /\ prior = <<>>
    /\ arg = <<>>
    /\ ret = <<>>
    /\ NoLoad

\* lines 311-319: loadPdf up to its first await; during is the set of the
\* calls that have not settled when this one starts
loadPdf(f) ==
    /\ loading' = TRUE
    /\ error' = "null"
    /\ pdfDoc' = "null"
    /\ elements' = <<>>
    /\ pages' = 0
    /\ pending' = TRUE
    /\ loads' = Append(loads, [file |-> f, at |-> "decode", p |-> 1,
                               all |-> <<>>, failed |-> FALSE,
                               during |-> {i \in DOMAIN loads :
                                              loads[i].at # "settled"}])

\* App.vue lines 23-27: a drop of a file that is not a PDF is ignored
OnDrop ==
    /\ Quiet
    /\ Len(loads) < MaxLoads
    /\ \E f \in Files :
           IF f.type = PDF
           THEN loadPdf(f) /\ UNCHANGED <<locals, prior, arg, ret>>
           ELSE UNCHANGED vars

\* App.vue lines 39-43: the file dialog hands over the chosen file
OnChange ==
    /\ Quiet
    /\ Len(loads) < MaxLoads
    /\ \E f \in Files : loadPdf(f)
    /\ UNCHANGED <<locals, prior, arg, ret>>

\* lines 319-325: arrayBuffer and getDocument have resolved
DocumentOpened ==
    /\ Quiet
    /\ \E i \in DOMAIN loads :
           /\ loads[i].at = "decode"
           /\ Decodes(loads[i].file)
           /\ pdfDoc' = loads[i].file.name
           /\ pages' = NumPages(loads[i].file)
           /\ loads' = [loads EXCEPT ![i].at = "pages"]
    /\ UNCHANGED <<call, prior, arg, ret, loading, error, pending>>

\* lines 434-439: getDocument has rejected
DocumentRejected ==
    /\ Quiet
    /\ \E i \in DOMAIN loads :
           /\ loads[i].at = "decode"
           /\ ~Decodes(loads[i].file)
           /\ loads' = [loads EXCEPT ![i].at = "settled", ![i].failed = TRUE]
    /\ error' = "Invalid PDF structure."
    /\ loading' = FALSE
    /\ UNCHANGED <<call, prior, arg, ret, pdfDoc, pages, pending>>

\* lines 327-430, a page that is not the last: getPage, getTextContent and
\* getOperatorList have resolved and the primitives are pushed to all
PageRead ==
    /\ Quiet
    /\ \E i \in DOMAIN loads :
           /\ loads[i].at = "pages"
           /\ loads[i].p < NumPages(loads[i].file)
           /\ loads' = [loads EXCEPT
                            ![i].all = @ \o PageElements(loads[i].file, loads[i].p),
                            ![i].p = @ + 1]
    /\ UNCHANGED <<call, prior, arg, ret, pdfDoc, pages, loading, error, pending>>

\* lines 327-439, the last page: the loop ends, elements.value = all
\* queues the watcher, finally clears loading
LastPageRead ==
    /\ Quiet
    /\ \E i \in DOMAIN loads :
           /\ loads[i].at = "pages"
           /\ loads[i].p = NumPages(loads[i].file)
           /\ LET all == loads[i].all \o PageElements(loads[i].file, loads[i].p)
              IN  /\ elements' = all
                  /\ loads' = [loads EXCEPT ![i].all = all, ![i].at = "settled"]
    /\ pending' = TRUE
    /\ loading' = FALSE
    /\ UNCHANGED <<locals, prior, arg, ret, pdfDoc, pages, error>>

\* App.vue lines 17-21: the queued watcher calls detectTables(els)
WatchElements ==
    /\ pending
    /\ pc = "done"
    /\ pending' = FALSE
    /\ pc' = "start"
    /\ byPage' = <<>>
    /\ pageIdx' = 1
    /\ hLines' = <<>>
    /\ hi' = 1
    /\ vi' = 1
    /\ vLines' = <<>>
    /\ uf' = NewUnionFind(0)
    /\ components' = <<>>
    /\ compIdx' = 1
    /\ tableIdx' = 0
    /\ tables' = <<>>
    /\ UNCHANGED <<elements, prior, arg, ret, pdfDoc, pages, loading, error, loads>>

NextLoad ==
    \/ OnDrop
    \/ OnChange
    \/ DocumentOpened
    \/ DocumentRejected
    \/ PageRead
    \/ LastPageRead
    \/ WatchElements
    \/ Next

SpecLoad == InitLoad /\ [][NextLoad]_vars

\* the primitives of every page of f, in page order
RECURSIVE ElementsUpTo(_, _)
ElementsUpTo(f, p) ==
    IF p = 0 THEN <<>> ELSE ElementsUpTo(f, p - 1) \o PageElements(f, p)

\* C30: when a second call of loadPdf starts before the first has settled,
\* then once both have settled without error pdfDoc and elements are
\* those of the file requested last.
C30_LastRequestWins ==
    ( /\ Len(loads) = 2
      /\ 1 \in loads[2].during
      /\ \A i \in 1..2 : loads[i].at = "settled" /\ ~loads[i].failed )
    => /\ pdfDoc = loads[2].file.name
       /\ elements = ElementsUpTo(loads[2].file, NumPages(loads[2].file))
====
